---- MODULE Spec2Model ----
(***************************************************************************)
(* Question/answer service (rust_web).  The model follows the chapter_10   *)
(* store and route handlers, and the chapter_08 pagination extractor.      *)
(*                                                                         *)
(* The questions and answers tables are kept as sequences in physical     *)
(* (insertion) order.  Every request runs as an independent task; the     *)
(* points where a handler awaits the database are the atomic steps.        *)
(* The moderation calls of a handler touch no shared state, so they are   *)
(* taken together with the database step that precedes them.               *)
(* Statements sent to the database are assumed to execute (a lost          *)
(* connection is not modelled).                                            *)
(***************************************************************************)
EXTENDS Integers, Sequences, FiniteSets, TLC

\* ------------------------------------------------------------ bounds
\* Requests the service takes in one run.
MaxReqs == 3

Reqs == 1..MaxReqs
\* The accounts that hold a session, and the ids a client names in a path.
AccountIds == {1, 2}
QuestionIds == {1, 2}

\* ------------------------------------------------------------ values
\* SQL NULL in an integer column.
NULL == 0
\* Option<Vec<String>>::None
NoTags == <<"None">>

\* Request bodies a client sends (NewQuestion / the fields of Question that
\* the statements bind).
NewQuestions ==
    { [title |-> "ask", content |-> "darn", tags |-> NoTags],
      [title |-> "darn", content |-> "why", tags |-> <<"rust">>] }

\* What one call of check_profanity can end with.
CheckOutcomes == {"Ok", "ClientError", "ServerError"}

\* The censored_content field of the moderation service's answer
\* (censor_character=*).
censored_content(text) ==
    IF text = "darn" THEN "****"
    ELSE IF text = "a list with shit words" THEN "a list with **** words"
    ELSE text

\* check_profanity: Ok(censored_content) or the classified error.
check_profanity(text, outcome) ==
    IF outcome = "Ok"
    THEN [ok |-> TRUE, val |-> censored_content(text)]
    ELSE [ok |-> FALSE, val |-> outcome]

\* ---- the moderation client: chapter_10 profanity::check_profanity ----
\* What one send of the request can come back with: an error of the
\* transport (err), or a response with a status and a body whose JSON is
\* a BadWordsResponse, an APIResponse or neither.
NoStatus == 0
SendErrors == {"connect", "redirect"}
Statuses == {200, 304, 422, 429, 500}
Bodies == {"BadWordsResponse", "APIResponse", "neither"}
SendResults ==
    {[err |-> e, status |-> NoStatus, body |-> "none"] : e \in SendErrors}
    \cup {[err |-> "none", status |-> s, body |-> b] : s \in Statuses, b \in Bodies}

is_success(status) == status >= 200 /\ status < 300
is_client_error(status) == status >= 400 /\ status < 500
is_server_error(status) == status >= 500 /\ status < 600

\* reqwest_retry::Retryable::from_reqwest_response: a timeout or a failed
\* connect is transient, as are the statuses 5xx, 408 and 429; a success
\* is not retryable at all; everything else is fatal.
REQUEST_TIMEOUT == 408
TOO_MANY_REQUESTS == 429
Retryable_transport_only(result) ==
    IF result.err = "connect" THEN "Transient"
    ELSE IF result.err # "none" THEN "Fatal"
    ELSE "None"
Retryable_from_reqwest_response(result) ==
    IF result.err = "connect" THEN "Transient"
    ELSE IF result.err # "none" THEN "Fatal"
    ELSE IF is_server_error(result.status) THEN "Transient"
    ELSE IF /\ is_client_error(result.status)
            /\ result.status # REQUEST_TIMEOUT
            /\ result.status # TOO_MANY_REQUESTS
    THEN "Fatal"
    ELSE IF is_success(result.status) THEN "None"
    ELSE IF result.status \in {REQUEST_TIMEOUT, TOO_MANY_REQUESTS} THEN "Transient"
    ELSE "Fatal"

\* ExponentialBackoff::builder().build_with_max_retries(3), and its
\* should_retry(n_past_retries)
max_n_retries == 3
should_retry_two(n_past_retries) == n_past_retries < max_n_retries - 1
should_retry(n_past_retries) == n_past_retries < max_n_retries

\* transform_error(res): status and the message of the body, which is
\* unwrapped as an APIResponse
transform_error(res) ==
    IF res.body = "APIResponse"
    THEN [ok |-> TRUE, status |-> res.status, message |-> "message"]
    ELSE [ok |-> FALSE, status |-> res.status, message |-> "none"]

\* check_profanity from the result of client.send() on: the error of the
\* middleware, the error by status, or the decoded censored_content,
\* which is the service's censoring of the text it was sent (content).
CheckResult(kind, val, status) == [kind |-> kind, val |-> val, status |-> status]
check_profanity_received(content, result) ==
    IF result.err # "none"
    THEN CheckResult("MiddlewareReqwestAPIError", "none", NoStatus)
    ELSE IF ~is_success(result.status)
    THEN IF ~transform_error(result).ok
         THEN CheckResult("Panic", "none", NoStatus)
         ELSE IF is_client_error(result.status)
         THEN CheckResult("ClientError", transform_error(result).message, result.status)
         ELSE CheckResult("ServerError", transform_error(result).message, result.status)
    ELSE IF result.body = "BadWordsResponse"
    THEN CheckResult("Ok", censored_content(content), NoStatus)
    ELSE CheckResult("ReqwestAPIError", "none", NoStatus)

\* A call of check_profanity(content): the crate whose function it is,
\* the body of its request, and the sends so far.
NoModeration ==
    [pc |-> "idle", crate |-> "none", content |-> "none", body |-> "none",
     n_past_retries |-> 0, sent |-> <<>>,
     res |-> CheckResult("none", "none", NoStatus)]

\* ---- chapter_04: the in-memory store ----
\* Store { questions: HashMap<QuestionId, Question>, answers:
\* HashMap<AnswerId, Answer> }: maps are functions on the keys present.
Ids04 == {"1", "2"}
Questions04 == [id : Ids04, title : {"ask", "why"}]
AnswerParams04 == [content : {"because", "so"}, questionId : Ids04]
Reply04(op, status, text, list) ==
    [op |-> op, status |-> status, text |-> text, list |-> list]

\* Store::new(): questions read from questions.json, no answers
questions_json == [k \in {"1"} |-> [id |-> "1", title |-> "ask"]]
Store_new ==
    [questions |-> questions_json, answers |-> [k \in {} |-> "none"],
     reply |-> Reply04("none", "none", "none", <<>>)]

\* HashMap::insert(key, value) and HashMap::remove(key)
insert(map, key, value) ==
    [k \in DOMAIN map \cup {key} |-> IF k = key THEN value ELSE map[k]]
remove(map, key) == [k \in DOMAIN map \ {key} |-> map[k]]

\* map.values().cloned().collect(): the values in the order the HashMap
\* iterates, which is some order of its keys
Collections(map) ==
    {s \in UNION {[1..n -> Questions04] : n \in {Cardinality(DOMAIN map)}} :
        /\ \A k \in DOMAIN map : \E i \in DOMAIN s : s[i] = map[k]
        /\ \E f \in [DOMAIN s -> DOMAIN map] :
              /\ \A i, j \in DOMAIN s : f[i] = f[j] => i = j
              /\ \A i \in DOMAIN s : s[i] = map[f[i]]}

\* chapter_04 return_error: an Error is answered 416 with its Display text
return_error04(op, error) ==
    Reply04(op, "416", IF error = "QuestionNotFound" THEN "Question not found"
                       ELSE IF error = "MissingParameters" THEN "Missing parameters"
                       ELSE "Cannot parse parameter", <<>>)

VARIABLES
    questions,          \* table questions: rows in physical order
    answers,            \* table answers
    next_question_id,   \* serial sequence of questions.id
    next_answer_id,     \* serial sequence of answers.id
    req,                \* the requests: one record per task
    params,             \* the query string of a GET /questions request
    listing,            \* the get_questions task
    now,                \* the wall clock (Utc::now())
    issued,             \* the tokens issue_token has built
    checked,            \* the last pass of a request through the auth filter
    accounts,           \* the rows of table accounts
    next_account_id,    \* the sequence behind accounts.id
    hashed,             \* the calls of hash_password so far
    submitted,          \* the plaintext passwords sent to register and login
    last_login,         \* the last login request and its reply
    last_register,      \* the last register request and its reply
    moderation,         \* the call of check_profanity under way: its sends so far
    checks,             \* per request: what its two calls of check_profanity gave
    failing,            \* the requests whose statement the database failed
    memory              \* chapter_04: the in-memory Store and the last reply

account_vars == <<accounts, next_account_id, hashed, submitted, last_login,
                  last_register>>

vars == <<questions, answers, next_question_id, next_answer_id, req, params, listing,
          now, issued, checked, accounts, next_account_id, hashed, submitted,
          last_login, last_register, moderation, checks, failing, memory>>

\* ------------------------------------------------------------ helpers
Range(s) == { s[i] : i \in DOMAIN s }

IdleBody == CHOOSE b \in NewQuestions : b.tags = NoTags

IdleReq ==
    [pc |-> "idle", op |-> "none", acct |-> NULL, qid |-> NULL,
     body |-> IdleBody, probe |-> "none", affected |-> -1,
     ret |-> "none", res |-> "none"]

\* The outcomes of the checks of title and content ("none": not called).
Checks(title, content) == [title |-> title, content |-> content]
NoChecks == Checks("none", "none")

\* Requests are taken into the slots in order.
CanStart(r) ==
    /\ req[r].pc = "idle"
    /\ \A s \in Reqs : s < r => req[s].pc # "idle"

\* A request that has returned: its reply, and what its statement did.
Finish(r, op, acct, qid, probe, affected, ret, res) ==
    [req EXCEPT ![r] =
        [pc |-> "done", op |-> op, acct |-> acct, qid |-> qid,
         body |-> IdleBody, probe |-> probe, affected |-> affected,
         ret |-> ret, res |-> res]]

\* ------------------------------------------------------------ store
\* The value the database gives questions.account_id when an INSERT does
\* not name the column: the column default of the schema, which the
\* statement leaves to the database (NULL, or a number of a sequence).
ColumnDefaults == {NULL} \cup AccountIds

\* WHERE id = $1 AND account_id = $2
MatchesNoAccount(row, id, account_id) == row.id = id
MatchesIdAndAccount(row, id, account_id) ==
    row.id = id /\ row.account_id = account_id

\* Store::add_question: INSERT INTO questions (title, content, tags) ...
\* RETURNING; account_id is a parameter the statement does not bind.
Store_add_question(table, serial, new_question, account_id, column_default) ==
    LET row == [id |-> serial, title |-> new_question.title,
                content |-> new_question.content, tags |-> new_question.tags,
                account_id |-> column_default]
    IN [table |-> Append(table, row), row |-> row, result |-> "Ok"]

\* fetch_one on the rows an UPDATE ... RETURNING gives back: no row is
\* sqlx::Error::RowNotFound, wrapped in DatabaseQueryError.
update_fetch_one_lenient(rows) == "Ok"
update_fetch_one(rows) == IF rows = 0 THEN "DatabaseQueryError" ELSE "Ok"

\* Store::update_question: UPDATE questions SET title, content, tags
\* WHERE id = $4 and account_id = $5 RETURNING ...
Store_update_question(table, question, id, account_id) ==
    LET hit == { i \in DOMAIN table : MatchesIdAndAccount(table[i], id, account_id) }
    IN [table |-> [i \in DOMAIN table |->
                     IF i \in hit
                     THEN [table[i] EXCEPT !.title = question.title,
                                           !.content = question.content,
                                           !.tags = question.tags]
                     ELSE table[i]],
        rows |-> Cardinality(hit),
        result |-> update_fetch_one(Cardinality(hit))]

\* Store::delete_question: DELETE FROM questions WHERE id = $1 AND
\* account_id = $2; execute() succeeds whatever the number of rows, and
\* the function answers Ok(true).
Store_delete_question(table, question_id, account_id) ==
    LET hit == { i \in DOMAIN table :
                    MatchesIdAndAccount(table[i], question_id, account_id) }
    IN [table |-> SelectSeq(table,
                    LAMBDA row : ~MatchesIdAndAccount(row, question_id, account_id)),
        rows |-> Cardinality(hit),
        ret |-> "true",
        result |-> "Ok"]

\* Store::is_question_owner: SELECT * from questions where id = $1 and
\* account_id = $2, fetch_optional(..).is_some()
is_question_owner_any_account(table, question_id, account_id) ==
    \E row \in Range(table) : row.id = question_id
Store_is_question_owner(table, question_id, account_id) ==
    \E row \in Range(table) : MatchesIdAndAccount(row, question_id, account_id)

\* answers.question_id REFERENCES questions(id)
answers_question_fk(qtable, question_id) ==
    \E row \in Range(qtable) : row.id = question_id

\* Store::add_answer: INSERT INTO answers (content, question_id, account_id)
\* with no RETURNING clause, read with fetch_one: the row is inserted and
\* fetch_one finds no row to return (RowNotFound).
Store_add_answer(table, qtable, serial, new_answer, account_id) ==
    IF answers_question_fk(qtable, new_answer.question_id)
    THEN [table |-> Append(table, [id |-> serial, content |-> new_answer.content,
                                   question_id |-> new_answer.question_id,
                                   account_id |-> account_id]),
          rows |-> 1, result |-> "DatabaseQueryError"]
    ELSE [table |-> table, rows |-> 0, result |-> "DatabaseQueryError"]

\* ------------------------------------------------------------ pagination
\* u32::MAX, in decimal digits (TLC's integers are 32-bit signed).
U32MaxDigits == <<"4", "2", "9", "4", "9", "6", "7", "2", "9", "5">>

Digits == {"0", "1", "2", "3", "4", "5", "6", "7", "8", "9"}
DigitValue(c) ==
    CASE c = "0" -> 0 [] c = "1" -> 1 [] c = "2" -> 2 [] c = "3" -> 3
      [] c = "4" -> 4 [] c = "5" -> 5 [] c = "6" -> 6 [] c = "7" -> 7
      [] c = "8" -> 8 [] c = "9" -> 9

\* Query values a client sends, as sequences of characters.
ParamStrings ==
    { <<>>, <<"0">>, <<"1">>, <<"2">>, <<"1", "0">>, <<"+", "2">>, <<"-", "1">>,
      <<"x">>, <<"2", "x">>,
      <<"4", "2", "9", "4", "9", "6", "7", "2", "9", "6">> }

\* HashMap<String, String>: the keys present, each with its value.
ParamKeys == {"limit", "offset", "other"}
ParamMaps ==
    { m \in UNION { [K -> ParamStrings] : K \in SUBSET ParamKeys } :
        "other" \in DOMAIN m => m["other"] = <<"x">> }
NoParams == CHOOSE m \in ParamMaps : DOMAIN m = {}

None == [some |-> FALSE, val |-> 0]
Some(n) == [some |-> TRUE, val |-> n]

RECURSIVE DecimalValue(_)
DecimalValue(ds) ==
    IF Len(ds) = 0 THEN 0
    ELSE 10 * DecimalValue(SubSeq(ds, 1, Len(ds) - 1)) + DigitValue(ds[Len(ds)])

RECURSIVE StripZeros(_)
StripZeros(ds) ==
    IF Len(ds) > 1 /\ ds[1] = "0" THEN StripZeros(Tail(ds)) ELSE ds

\* The checked multiply-and-add of the digits overflows u32.
PosOverflow(ds) ==
    LET sig == StripZeros(ds)
    IN \/ Len(sig) > Len(U32MaxDigits)
       \/ /\ Len(sig) = Len(U32MaxDigits)
          /\ \E i \in DOMAIN sig :
                /\ DigitValue(sig[i]) > DigitValue(U32MaxDigits[i])
                /\ \A j \in 1..(i - 1) : sig[j] = U32MaxDigits[j]

\* str::parse::<u32>: an optional leading "+", then one or more digits, the
\* value at most u32::MAX; anything else is a ParseIntError.
parse_u32_signed(src) ==
    LET digits == IF Len(src) > 0 /\ src[1] \in {"+", "-"} THEN Tail(src) ELSE src
    IN IF Len(digits) = 0 THEN [ok |-> FALSE, val |-> 0]
       ELSE IF \E i \in DOMAIN digits : digits[i] \notin Digits
       THEN [ok |-> FALSE, val |-> 0]
       ELSE IF PosOverflow(digits) THEN [ok |-> FALSE, val |-> 0]
       ELSE IF src[1] = "-" THEN [ok |-> TRUE, val |-> 0 - DecimalValue(digits)]
       ELSE [ok |-> TRUE, val |-> DecimalValue(digits)]
parse_u32_or_zero(src) ==
    IF Len(src) > 0 /\ \A i \in DOMAIN src : src[i] \in Digits
    THEN [ok |-> TRUE, val |-> DecimalValue(src)]
    ELSE [ok |-> TRUE, val |-> 0]
parse_u32(src) ==
    LET digits == IF Len(src) > 0 /\ src[1] = "+" THEN Tail(src) ELSE src
    IN IF Len(src) = 0 THEN [ok |-> FALSE, val |-> 0]
       ELSE IF Len(digits) = 0 THEN [ok |-> FALSE, val |-> 0]
       ELSE IF \E i \in DOMAIN digits : digits[i] \notin Digits
       THEN [ok |-> FALSE, val |-> 0]
       ELSE IF PosOverflow(digits) THEN [ok |-> FALSE, val |-> 0]
       ELSE [ok |-> TRUE, val |-> DecimalValue(digits)]

\* Pagination::default()
Pagination_default == [limit |-> None, offset |-> 0]

\* extract_pagination
extract_pagination_offset_only(ps) ==
    IF "offset" \in DOMAIN ps
    THEN LET limit == IF "limit" \in DOMAIN ps THEN parse_u32(ps["limit"])
                      ELSE [ok |-> TRUE, val |-> 0]
             offset == parse_u32(ps["offset"])
         IN IF ~limit.ok THEN [ok |-> FALSE, err |-> "ParseError"]
            ELSE IF ~offset.ok THEN [ok |-> FALSE, err |-> "ParseError"]
            ELSE [ok |-> TRUE,
                  val |-> [limit |-> IF "limit" \in DOMAIN ps THEN Some(limit.val)
                                     ELSE None,
                           offset |-> offset.val]]
    ELSE [ok |-> FALSE, err |-> "MissingParameters"]
extract_pagination(ps) ==
    IF "limit" \in DOMAIN ps /\ "offset" \in DOMAIN ps
    THEN LET limit == parse_u32(ps["limit"])
             offset == parse_u32(ps["offset"])
         IN IF ~limit.ok THEN [ok |-> FALSE, err |-> "ParseError"]
            ELSE IF ~offset.ok THEN [ok |-> FALSE, err |-> "ParseError"]
            ELSE [ok |-> TRUE,
                  val |-> [limit |-> Some(limit.val), offset |-> offset.val]]
    ELSE [ok |-> FALSE, err |-> "MissingParameters"]

\* Store::get_questions: SELECT * from questions LIMIT $1 OFFSET $2, each
\* row mapped to a Question (a NULL limit is no limit).
Store_get_questions(table, limit, offset) ==
    LET left == IF Len(table) > offset THEN Len(table) - offset ELSE 0
        n == IF limit.some /\ limit.val < left THEN limit.val ELSE left
    IN [i \in 1..n |->
          [id |-> table[offset + i].id, title |-> table[offset + i].title,
           content |-> table[offset + i].content, tags |-> table[offset + i].tags]]

IdleListing ==
    [pc |-> "start", pagination |-> Pagination_default,
     extracted |-> [ok |-> FALSE, err |-> "none"],
     store_args |-> <<>>, reply |-> [ok |-> FALSE, err |-> "none"]]

\* ------------------------------------------------------------ session tokens
\* Ticks of the clock in a run, and the ticks in chrono::Duration::days(1).
MaxTime == 4
Day == 2
\* The tokens issue_token builds in a run.
IssueSlots == {1, 2}

Times == 0..MaxTime
\* A claim the token does not carry.
NoClaim == 0 - 1

\* The symmetric key of issue_token and verify_token, and a key of someone else.
ServerKey == "RANDOM WORDS WINTER MACINTOSH PC"
Keys == {ServerKey, "ANOTHER KEY"}

\* issue_token: PasetoBuilder with set_expiration(current_date_time + 1 day),
\* set_not_before(Utc::now()), the claim account_id; no issued-at claim is
\* set. The clock is read twice: current_date_time, then at_not_before.
issue_token_not_before_late(account_id, current_date_time, at_not_before) ==
    [key |-> ServerKey, account_id |-> account_id, iat |-> NoClaim,
     nbf |-> at_not_before + 1, exp |-> current_date_time + Day]
issue_token(account_id, current_date_time, at_not_before) ==
    [key |-> ServerKey, account_id |-> account_id, iat |-> NoClaim,
     nbf |-> at_not_before, exp |-> current_date_time + Day]

\* paseto::tokens::validate_local_token with TimeBackend::Chrono: the token
\* decrypts under the key, and each of iat, exp, nbf it carries is checked
\* against the clock (iat and nbf not after it, exp not before it).
validate_local_token(token, key, at) ==
    IF token.key # key THEN [ok |-> FALSE, val |-> token]
    ELSE IF token.iat # NoClaim /\ token.iat > at THEN [ok |-> FALSE, val |-> token]
    ELSE IF token.exp # NoClaim /\ token.exp < at THEN [ok |-> FALSE, val |-> token]
    ELSE IF token.nbf # NoClaim /\ token.nbf > at THEN [ok |-> FALSE, val |-> token]
    ELSE [ok |-> TRUE, val |-> token]

\* Session, and serde_json::from_value::<Session>: the claims must carry
\* the account identifier, not-before and expiry.
NoSession == [account_id |-> NoClaim, nbf |-> NoClaim, exp |-> NoClaim]
Session_from_value(claims) ==
    IF claims.account_id = NoClaim \/ claims.nbf = NoClaim \/ claims.exp = NoClaim
    THEN [ok |-> FALSE, val |-> NoSession]
    ELSE [ok |-> TRUE,
          val |-> [account_id |-> claims.account_id, nbf |-> claims.nbf,
                   exp |-> claims.exp]]

\* verify_token: both failures are mapped to CannotDecryptToken.
verify_token_telling(token, at) ==
    LET claims == validate_local_token(token, ServerKey, at)
        session == Session_from_value(claims.val)
    IN IF ~claims.ok
       THEN [ok |-> FALSE, val |-> NoSession,
             err |-> IF token.key # ServerKey THEN "CannotDecryptToken"
                     ELSE "TokenExpired"]
       ELSE IF ~session.ok
       THEN [ok |-> FALSE, val |-> NoSession, err |-> "MalformedClaims"]
       ELSE [ok |-> TRUE, val |-> session.val, err |-> "none"]
verify_token_no_window(token, at) ==
    LET session == Session_from_value(token)
    IN IF token.key # ServerKey \/ ~session.ok
       THEN [ok |-> FALSE, val |-> NoSession, err |-> "CannotDecryptToken"]
       ELSE [ok |-> TRUE, val |-> session.val, err |-> "none"]
verify_token_latest_only(token, at) ==
    LET claims == validate_local_token(token, ServerKey, at)
        session == Session_from_value(claims.val)
        revoked == \E i \in issued : /\ i.account_id = token.account_id
                                     /\ i.token.nbf > token.nbf
    IN IF ~claims.ok \/ ~session.ok \/ revoked
       THEN [ok |-> FALSE, val |-> NoSession, err |-> "CannotDecryptToken"]
       ELSE [ok |-> TRUE, val |-> session.val, err |-> "none"]
verify_token(token, at) ==
    LET claims == validate_local_token(token, ServerKey, at)
        session == Session_from_value(claims.val)
    IN IF ~claims.ok
       THEN [ok |-> FALSE, val |-> NoSession, err |-> "CannotDecryptToken"]
       ELSE IF ~session.ok
       THEN [ok |-> FALSE, val |-> NoSession, err |-> "CannotDecryptToken"]
       ELSE [ok |-> TRUE, val |-> session.val, err |-> "none"]

\* A request without an Authorization header.
NoHeader ==
    [key |-> "no header", account_id |-> NoClaim, iat |-> NoClaim,
     nbf |-> NoClaim, exp |-> NoClaim]

\* Rejections: warp's own (a missing header, reject() = not found) and
\* reject::custom(Error).
Rejection(kind, err) == [kind |-> kind, err |-> err]
NoRejection == Rejection("none", "none")

\* auth: warp::header::<String>("Authorization"), then verify_token; a
\* failed verification is answered with warp::reject::reject().
auth_unchecked(header, at) ==
    IF header = NoHeader
    THEN [ok |-> FALSE, val |-> NoSession,
          rejection |-> Rejection("missing_header", "none")]
    ELSE [ok |-> TRUE,
          val |-> [account_id |-> header.account_id, nbf |-> header.nbf,
                   exp |-> header.exp],
          rejection |-> NoRejection]
auth(header, at) ==
    IF header = NoHeader
    THEN [ok |-> FALSE, val |-> NoSession,
          rejection |-> Rejection("missing_header", "none")]
    ELSE LET t == verify_token(header, at)
         IN IF t.ok THEN [ok |-> TRUE, val |-> t.val, rejection |-> NoRejection]
            ELSE [ok |-> FALSE, val |-> NoSession,
                  rejection |-> Rejection("not_found", "none")]

\* return_error: the reply for a rejection (database errors are answered
\* by their SQLSTATE code, held in err).
Reply(status, text) == [status |-> status, text |-> text]

\* The sqlx::Error of a failed statement: not from the database (the pool
\* timed out, fetch_one found no row), or a database error with its
\* SQLSTATE code and, for the violation of a constraint, its name.
SqlxError(kind, code, constraint) == [kind |-> kind, code |-> code, constraint |-> constraint]
PoolTimedOut == SqlxError("PoolTimedOut", <<>>, FALSE)
RowNotFound == SqlxError("RowNotFound", <<>>, FALSE)
UniqueViolation == SqlxError("Database", <<"2", "3", "5", "0", "5">>, TRUE)
ForeignKeyViolation == SqlxError("Database", <<"2", "3", "5", "0", "3">>, TRUE)
StringDataRightTruncation == SqlxError("Database", <<"2", "2", "0", "0", "1">>, FALSE)
AdminShutdown == SqlxError("Database", <<"5", "7", "P", "0", "1">>, FALSE)
DeadlockDetected == SqlxError("Database", <<"4", "0", "P", "0", "1">>, FALSE)

\* return_error, the arm of DatabaseQueryError(e): a database error is
\* answered by err.code().unwrap().parse::<u32>().unwrap() == DUPLICATE_KEY,
\* any other sqlx error with "Cannot update data"; a code that does not
\* parse panics the task (no reply).
DUPLICATE_KEY == 23505
Aborted == Reply("none", "Panic")
return_error_database(e) ==
    IF e.kind = "Database"
    THEN IF ~parse_u32(e.code).ok THEN Aborted
         ELSE IF parse_u32(e.code).val = DUPLICATE_KEY
         THEN Reply("422", "Account already exists")
         ELSE Reply("422", "Cannot update data")
    ELSE Reply("422", "Cannot update data")

\* Store::add_account, the arm Err(error): the fields of the event are
\* computed when the subscriber takes the event (enabled), with unwrap on
\* as_database_error(), on code().parse::<i32>() and on constraint().
\* (A SQLSTATE has five characters, so the parse fails on a letter only.)
add_account_error(error, enabled) ==
    IF /\ enabled
       /\ \/ error.kind # "Database"
          \/ \E i \in DOMAIN error.code : error.code[i] \notin Digits
          \/ ~error.constraint
    THEN "Panic"
    ELSE "DatabaseQueryError"

\* The store calls whose failure is followed here, and the errors the
\* statement of each can fail with.
FailingOps == {"add_account", "get_account", "add_question", "update_question",
               "add_answer"}
FailuresOf(op) ==
    CASE op = "add_account" ->
            {PoolTimedOut, UniqueViolation, StringDataRightTruncation, AdminShutdown}
      [] op = "get_account" -> {PoolTimedOut, RowNotFound, AdminShutdown}
      [] op = "add_question" -> {PoolTimedOut, AdminShutdown}
      [] op = "update_question" -> {PoolTimedOut, RowNotFound, DeadlockDetected}
      [] op = "add_answer" -> {PoolTimedOut, RowNotFound, ForeignKeyViolation}

FailSlots == {1, 2}
Failure(pc, op, error, enabled, returned, reply) ==
    [pc |-> pc, op |-> op, error |-> error, enabled |-> enabled,
     returned |-> returned, reply |-> reply]
NoFailure ==
    Failure("idle", "none", SqlxError("none", <<>>, FALSE), FALSE, "none",
            Reply("none", "none"))
return_error_catch_all(r) ==
    IF r.kind = "custom" /\ r.err \in {"DatabaseQueryError:23505", "DatabaseQueryError"}
    THEN Reply("422", "Cannot update data")
    ELSE Reply("404", "Route not found")
return_error(r) ==
    IF r.kind = "custom" /\ r.err = "DatabaseQueryError:23505"
    THEN return_error_database(UniqueViolation)
    ELSE IF r.kind = "custom" /\ r.err = "DatabaseQueryError"
    THEN return_error_database(RowNotFound)
    ELSE IF r.kind = "custom" /\ r.err = "ReqwestAPIError"
    THEN Reply("500", "Internal Server Error")
    ELSE IF r.kind = "custom" /\ r.err = "Unauthorized"
    THEN Reply("401", "No permission to change underlying resource")
    ELSE IF r.kind = "custom" /\ r.err = "WrongPassword"
    THEN Reply("401", "Wrong E-Mail/Password combination")
    ELSE IF r.kind = "custom"
            /\ r.err \in {"MiddlewareReqwestAPIError", "ClientError", "ServerError"}
    THEN Reply("500", "Internal Server Error")
    ELSE IF r.kind = "custom" /\ r.err = "CannotDecryptToken"
    THEN Reply("422", "Cannot decrypt error")
    ELSE IF r.kind = "custom" /\ r.err = "MissingParameters"
    THEN Reply("422", "Missing parameters")
    ELSE IF r.kind = "custom" /\ r.err = "ArgonLibraryError"
    THEN Reply("422", "Cannot verify password")
    ELSE IF r.kind = "custom" /\ r.err = "ParseError"
    THEN Reply("422", "Cannot parse parameter")
    ELSE Reply("404", "Route not found")

NotChecked ==
    [header |-> NoHeader, at |-> NoClaim,
     verified |-> [ok |-> FALSE, val |-> NoSession, err |-> "none"],
     passed |-> FALSE, session |-> NoSession, rejection |-> NoRejection,
     reply |-> Reply("none", "none")]

\* ------------------------------------------------------------ accounts
\* Texts (passwords, encoded hashes) are sequences of parts, so that a
\* plaintext and an encoding can be compared.
Emails == {"a@example.com", "b@example.com"}
Passwords == {<<"pw1">>, <<"pw2">>}

\* The 32-byte outputs of rand::thread_rng() in a run; the generator is
\* taken not to give the same 32 bytes twice.
Salts == {"salt1", "salt2", "salt3"}
UsedSalts == {h.salt : h \in hashed}

\* argon2::hash_encoded(password, salt, Config::default()): the encoding
\* carries the parameters, the salt and the digest of password and salt
\* (the digest is held as the pair it is computed from).
Argon2Params == "$argon2i$v=19$m=4096,t=3,p=1"
digest(password, salt) == <<"H", salt>> \o password
hash_encoded(password, salt) == <<Argon2Params, salt>> \o digest(password, salt)

\* argon2 refuses a password of more than u32::MAX bytes (Context::new,
\* in hash_encoded and in verify_encoded); OversizedPassword is one.
OversizedPassword == <<"4GiB">>
argon2_accepts(password) == password # OversizedPassword

\* hash_password(password), with salt the bytes it draws; the value is
\* that of hash_encoded(..).unwrap() when argon2 accepts the password
hash_password_fixed_salt(password, salt) == hash_encoded(password, "salt0")
hash_password(password, salt) == hash_encoded(password, salt)

\* argon2::verify_encoded(hash, password): the digest is recomputed with
\* the salt in the encoding; an encoding that does not decode is an error.
verify_encoded(hash, password) ==
    IF Len(hash) < 3 \/ hash[1] # Argon2Params \/ ~argon2_accepts(password)
    THEN [ok |-> FALSE, val |-> FALSE]
    ELSE [ok |-> TRUE,
          val |-> SubSeq(hash, 3, Len(hash)) = digest(password, hash[2])]

\* verify_password(hash, password)
verify_password_any(hash, password) == [ok |-> TRUE, val |-> TRUE]
verify_password(hash, password) == verify_encoded(hash, password)

\* accounts.email is UNIQUE, accounts.id is assigned by the store.
accounts_email_unique(table, email) == \A i \in DOMAIN table : table[i].email # email

\* Store::add_account: INSERT INTO accounts (email, password); a unique
\* violation is SQLSTATE 23505.
Store_add_account(table, serial, account) ==
    IF accounts_email_unique(table, account.email)
    THEN [table |-> Append(table, [id |-> serial, email |-> account.email,
                                   password |-> account.password]),
          result |-> "Ok(true)"]
    ELSE [table |-> table, result |-> "DatabaseQueryError:23505"]

\* Store::get_account: SELECT * from accounts where email = $1, fetch_one
NoAccount == [id |-> NULL, email |-> "none", password |-> <<>>]
Store_get_account_first(table, email) ==
    IF table # <<>>
    THEN [ok |-> TRUE, row |-> table[1]]
    ELSE [ok |-> FALSE, row |-> NoAccount]
Store_get_account_or_default(table, email) ==
    IF \E i \in DOMAIN table : table[i].email = email
    THEN [ok |-> TRUE, row |-> table[CHOOSE i \in DOMAIN table : table[i].email = email]]
    ELSE [ok |-> TRUE, row |-> NoAccount]
Store_get_account(table, email) ==
    IF \E i \in DOMAIN table : table[i].email = email
    THEN [ok |-> TRUE,
          row |-> table[CHOOSE i \in DOMAIN table : table[i].email = email]]
    ELSE [ok |-> FALSE, row |-> NoAccount]

\* A login request that returned: the token, or the reply return_error
\* gives for the rejection.
LoginResult(email, password, res, token, at) ==
    [email |-> email, password |-> password, res |-> res, token |-> token, at |-> at,
     reply |-> IF res = "token" THEN Reply("200", "token")
               ELSE return_error(Rejection("custom", res))]
NoLogin ==
    [email |-> "none", password |-> <<>>, res |-> "none", token |-> NoHeader,
     at |-> NoClaim, reply |-> Reply("none", "none")]

\* A register request that returned, or whose task panicked (no reply).
RegisterResult(email, password, res) ==
    [email |-> email, password |-> password, res |-> res,
     reply |-> IF res = "Ok(true)" THEN Reply("200", "Account added")
               ELSE IF res = "Panic" THEN Reply("none", "none")
               ELSE return_error(Rejection("custom", res))]
NoRegister ==
    [email |-> "none", password |-> <<>>, res |-> "none",
     reply |-> Reply("none", "none")]

\* ------------------------------------------------------------ handlers
Init ==
    /\ questions = <<>>
    /\ answers = <<>>
    /\ next_question_id = 1
    /\ next_answer_id = 1
    /\ req = [r \in Reqs |-> IdleReq]
    /\ params = NoParams
    /\ listing = IdleListing
    /\ now = 0
    /\ issued = {}
    /\ checked = NotChecked
    /\ accounts = <<>>
    /\ next_account_id = 1
    /\ hashed = {}
    /\ submitted = {}
    /\ last_login = NoLogin
    /\ last_register = NoRegister
    /\ moderation = NoModeration
    /\ checks = [r \in Reqs |-> NoChecks]
    /\ failing = [s \in FailSlots |-> NoFailure]
    /\ memory = Store_new

\* routes::question::add_question(session, store, new_question), with
\* acct the session's account_id
add_question_unchecked(r, acct, nq, to, co) ==
    /\ CanStart(r)
    /\ \E d \in ColumnDefaults :
        LET question == [title |-> nq.title, content |-> nq.content, tags |-> nq.tags]
            ins == Store_add_question(questions, next_question_id, question, acct, d)
        IN /\ questions' = ins.table
           /\ next_question_id' = next_question_id + 1
           /\ req' = Finish(r, "add_question", acct, ins.row.id, "none", 1, "none", ins.result)
    /\ UNCHANGED <<answers, next_answer_id, params, memory, failing, moderation, listing, now, issued, account_vars>>
add_question_with(r, acct, nq, to, co) ==
    /\ CanStart(r)
    /\ \E d \in ColumnDefaults :
        LET title == check_profanity(nq.title, to)
            content == check_profanity(nq.content, co)
            question == [title |-> title.val, content |-> content.val,
                         tags |-> nq.tags]
            ins == Store_add_question(questions, next_question_id, question, acct, d)
        IN IF ~title.ok
           THEN /\ req' = Finish(r, "add_question", acct, NULL, "none", -1, "none", title.val)
                /\ UNCHANGED <<questions, next_question_id>>
           ELSE IF ~content.ok
           THEN /\ req' = Finish(r, "add_question", acct, NULL, "none", -1, "none", content.val)
                /\ UNCHANGED <<questions, next_question_id>>
           ELSE /\ questions' = ins.table
                /\ next_question_id' = next_question_id + 1
                /\ req' = Finish(r, "add_question", acct, ins.row.id, "none", 1, "none", ins.result)
    /\ UNCHANGED <<answers, next_answer_id, params, memory, failing, moderation, listing, now, issued, account_vars>>

add_question_handler(r, acct) ==
    \E nq \in NewQuestions, to \in CheckOutcomes, co \in CheckOutcomes :
        add_question_with(r, acct, nq, to, co)

add_question(r) ==
    /\ \E acct \in AccountIds : add_question_handler(r, acct)
    /\ UNCHANGED <<checked, checks>>

\* routes::question::update_question(id, session, store, question), up to
\* the join of the two checks
update_question_with(r, acct, id, q, to, co) ==
    /\ CanStart(r)
    /\  LET title == check_profanity(q.title, to)
            content == check_profanity(q.content, co)
        IN IF ~Store_is_question_owner(questions, id, acct)
           THEN req' = Finish(r, "update_question", acct, id, "failed", -1, "none", "Unauthorized")
           ELSE IF title.ok /\ content.ok
           THEN req' = [req EXCEPT ![r] =
                          [pc |-> "update", op |-> "update_question", acct |-> acct,
                           qid |-> id,
                           body |-> [title |-> title.val, content |-> content.val,
                                     tags |-> q.tags],
                           probe |-> "passed", affected |-> -1, ret |-> "none",
                           res |-> "none"]]
           ELSE IF ~title.ok
           THEN req' = Finish(r, "update_question", acct, id, "passed", -1, "none", title.val)
           \* title.expect_err(..) on an Ok title: the task panics
           ELSE req' = Finish(r, "update_question", acct, id, "passed", -1, "none", "Panic")
    /\ UNCHANGED <<questions, answers, next_question_id, next_answer_id, params, memory, failing, moderation, listing, now, issued, account_vars>>

update_question_handler(r, acct) ==
    \E id \in QuestionIds, q \in NewQuestions,
       to \in CheckOutcomes, co \in CheckOutcomes :
        update_question_with(r, acct, id, q, to, co)

update_question_probe(r) ==
    /\ \E acct \in AccountIds : update_question_handler(r, acct)
    /\ UNCHANGED <<checked, checks>>

\* routes::question::update_question: store.update_question(..).await
update_question_stmt(r) ==
    /\ req[r].pc = "update"
    /\ LET upd == Store_update_question(questions, req[r].body, req[r].qid, req[r].acct)
       IN /\ questions' = upd.table
          /\ req' = Finish(r, "update_question", req[r].acct, req[r].qid, "passed",
                           upd.rows, "none", upd.result)
    /\ UNCHANGED <<answers, next_question_id, next_answer_id, params, memory, failing, moderation, listing, now, issued, checked, checks, account_vars>>

\* routes::question::delete_question(id, session, store): the ownership
\* probe
delete_question_handler(r, acct) ==
    /\ CanStart(r)
    /\ \E id \in QuestionIds :
        IF Store_is_question_owner(questions, id, acct)
        THEN req' = [req EXCEPT ![r] =
                        [IdleReq EXCEPT !.pc = "delete", !.op = "delete_question",
                                        !.acct = acct, !.qid = id, !.probe = "passed"]]
        ELSE req' = Finish(r, "delete_question", acct, id, "failed", -1, "none", "Unauthorized")
    /\ UNCHANGED <<questions, answers, next_question_id, next_answer_id, params, memory, failing, moderation, listing, now, issued, account_vars>>

delete_question_probe(r) ==
    /\ \E acct \in AccountIds : delete_question_handler(r, acct)
    /\ UNCHANGED <<checked, checks>>

\* routes::question::delete_question: store.delete_question(..).await
delete_question_stmt(r) ==
    /\ req[r].pc = "delete"
    /\ LET del == Store_delete_question(questions, req[r].qid, req[r].acct)
       IN /\ questions' = del.table
          /\ req' = Finish(r, "delete_question", req[r].acct, req[r].qid, "passed",
                           del.rows, del.ret, del.result)
    /\ UNCHANGED <<answers, next_question_id, next_answer_id, params, memory, failing, moderation, listing, now, issued, checked, checks, account_vars>>

\* POST /answers with a session: Store::add_answer(new_answer, account_id)
add_answer_handler(r, acct) ==
    /\ CanStart(r)
    /\ \E id \in QuestionIds :
        LET ins == Store_add_answer(answers, questions, next_answer_id,
                                    [content |-> "because", question_id |-> id], acct)
        IN /\ answers' = ins.table
           /\ next_answer_id' = next_answer_id + 1
           /\ req' = Finish(r, "add_answer", acct, id, "none", ins.rows, "none", ins.result)
    /\ UNCHANGED <<questions, next_question_id, params, memory, failing, moderation, listing, now, issued, account_vars>>

add_answer(r) ==
    /\ \E acct \in AccountIds : add_answer_handler(r, acct)
    /\ UNCHANGED <<checked, checks>>

Next ==
    \/ \E r \in Reqs : add_question(r)
    \/ \E r \in Reqs : update_question_probe(r)
    \/ \E r \in Reqs : update_question_stmt(r)
    \/ \E r \in Reqs : delete_question_probe(r)
    \/ \E r \in Reqs : delete_question_stmt(r)
    \/ \E r \in Reqs : add_answer(r)

Spec == Init /\ [][Next]_vars

\* ------------------------------------------------------------ properties of Spec
\* C1: a row of questions changes its title/content/tags, or leaves the
\* table, only in the statement step of an update_question or
\* delete_question request for that id whose session account_id is the
\* account_id recorded in the row.
C1_OwnerOnlyMutation ==
    [][\A i \in DOMAIN questions :
          questions[i] \notin Range(questions') =>
             \E r \in Reqs :
                /\ req[r].pc \in {"update", "delete"}
                /\ req'[r].pc = "done"
                /\ req[r].qid = questions[i].id
                /\ req[r].acct = questions[i].account_id]_vars

\* An owner's update has changed a row and an owner's delete has removed one.
C1_Witness ==
    \E r, s \in Reqs :
       /\ req[r].op = "update_question" /\ req[r].affected = 1
       /\ req[s].op = "delete_question" /\ req[s].affected = 1

\* The question with this id was created by an add_question request of acct.
CreatedBy(id, acct) ==
    \E a \in Reqs :
       /\ req[a].op = "add_question" /\ req[a].res = "Ok"
       /\ req[a].qid = id /\ req[a].acct = acct

\* C2: once account A has created a question through add_question, a later
\* update_question or delete_question of A on that (still stored) question
\* is not rejected as Unauthorized, and its statement succeeds: the row
\* carries the new title/content/tags, respectively is gone.
C2_CreatorMayUpdateAndDelete ==
    [][\A r \in Reqs :
          LET id == req'[r].qid
              acct == req'[r].acct
              stored == \E row \in Range(questions) : row.id = id
          IN /\ ( /\ req[r].pc = "idle"
                  /\ req'[r].op \in {"update_question", "delete_question"}
                  /\ CreatedBy(id, acct) /\ stored )
                => req'[r].res # "Unauthorized"
             /\ ( /\ req[r].pc \in {"update", "delete"} /\ req'[r].pc = "done"
                  /\ CreatedBy(id, acct) /\ stored )
                => /\ req'[r].res = "Ok"
                   /\ req[r].pc = "delete" =>
                         ~ \E row \in Range(questions') : row.id = id
                   /\ req[r].pc = "update" =>
                         \E row \in Range(questions') :
                            /\ row.id = id
                            /\ row.title = req[r].body.title
                            /\ row.content = req[r].body.content
                            /\ row.tags = req[r].body.tags]_vars

\* C3: an update_question or delete_question request whose session account
\* is not the account_id of the target row ends with Unauthorized in its
\* probe step, never reaches its statement, and leaves the tables as they
\* were.
C3_NonOwnerUnauthorized ==
    [][\A r \in Reqs :
          ( /\ req[r].pc = "idle"
            /\ req'[r].op \in {"update_question", "delete_question"}
            /\ ~ \E row \in Range(questions) :
                    row.id = req'[r].qid /\ row.account_id = req'[r].acct )
          => /\ req'[r].pc = "done"
             /\ req'[r].res = "Unauthorized"
             /\ req'[r].affected = -1
             /\ questions' = questions
             /\ answers' = answers]_vars

\* A request was refused on a stored question that another account owns.
C3_Witness ==
    \E r \in Reqs :
       /\ req[r].op \in {"update_question", "delete_question"}
       /\ req[r].res = "Unauthorized"
       /\ \E row \in Range(questions) :
             /\ row.id = req[r].qid
             /\ row.account_id \in AccountIds
             /\ row.account_id # req[r].acct

\* C4: every stored question and every stored answer has as its owner the
\* session account of the add_question / add_answer request that created it.
C4_OwnerIsCreatingSession ==
    /\ \A row \in Range(questions) : CreatedBy(row.id, row.account_id)
    /\ \A row \in Range(answers) :
          \E a \in Reqs :
             /\ req[a].op = "add_answer" /\ req[a].affected = 1
             /\ req[a].qid = row.question_id /\ req[a].acct = row.account_id

\* C5: an update_question request whose probe passed and whose UPDATE then
\* matched no row ends with DatabaseQueryError, not with Ok.
C5_LostUpdateIsQueryError ==
    \A r \in Reqs :
       ( /\ req[r].op = "update_question" /\ req[r].pc = "done"
         /\ req[r].probe = "passed" /\ req[r].affected = 0 )
       => req[r].res = "DatabaseQueryError"

\* The probe passed, a delete of the same question took the row, and the
\* UPDATE matched nothing.
C5_Witness ==
    \E r, d \in Reqs :
       /\ req[r].op = "update_question" /\ req[r].pc = "done"
       /\ req[r].probe = "passed" /\ req[r].affected = 0
       /\ req[d].op = "delete_question" /\ req[d].affected = 1
       /\ req[d].qid = req[r].qid

\* C6: delete_question answers true exactly when its DELETE removed a row,
\* and of the delete requests for one question at most one reports the
\* question deleted.
C6_DeleteReportsRemoval ==
    /\ \A r \in Reqs :
          (req[r].op = "delete_question" /\ req[r].affected >= 0)
          => (req[r].ret = "true" <=> req[r].affected > 0)
    /\ \A r, s \in Reqs :
          ( /\ r # s
            /\ req[r].op = "delete_question" /\ req[s].op = "delete_question"
            /\ req[r].qid = req[s].qid
            /\ req[r].res = "Ok" )
          => req[s].res # "Ok"

\* ------------------------------------------------------------ GET /questions
\* The rows MaxRows add_question requests leave, ids ascending.
MaxRows == 5

SeedRow(i) ==
    [id |-> i, title |-> "ask", content |-> "why", tags |-> NoTags,
     account_id |-> NULL]

InitList ==
    /\ \E n \in 0..MaxRows :
        /\ questions = [i \in 1..n |-> SeedRow(i)]
        /\ next_question_id = n + 1
    /\ answers = <<>>
    /\ next_answer_id = 1
    /\ req = [r \in Reqs |-> IdleReq]
    /\ params \in ParamMaps
    /\ listing = IdleListing
    /\ now = 0
    /\ issued = {}
    /\ checked = NotChecked
    /\ accounts = <<>>
    /\ next_account_id = 1
    /\ hashed = {}
    /\ submitted = {}
    /\ last_login = NoLogin
    /\ last_register = NoRegister
    /\ moderation = NoModeration
    /\ checks = [r \in Reqs |-> NoChecks]
    /\ failing = [s \in FailSlots |-> NoFailure]
    /\ memory = Store_new

\* routes::question::get_questions, up to the store call: the Pagination
\* that extract_pagination returns is bound to a new variable of the inner
\* block, and the outer one keeps Pagination::default().
get_questions_extract ==
    /\ listing.pc = "start"
    /\ IF DOMAIN params # {}
       THEN LET inner == extract_pagination(params)
            IN IF inner.ok
               THEN listing' = [listing EXCEPT !.pc = "query", !.extracted = inner]
               ELSE listing' = [listing EXCEPT !.pc = "done", !.extracted = inner,
                                               !.reply = inner]
       ELSE listing' = [listing EXCEPT !.pc = "query"]
    /\ UNCHANGED <<questions, answers, next_question_id, next_answer_id, req, params, memory, failing, moderation, now, issued, checked, checks, account_vars>>

\* routes::question::get_questions: store.get_questions(limit, offset).await
get_questions_query ==
    /\ listing.pc = "query"
    /\ listing' = [listing EXCEPT
          !.pc = "done",
          !.store_args = <<listing.pagination.limit, listing.pagination.offset>>,
          !.reply = [ok |-> TRUE,
                     val |-> Store_get_questions(questions, listing.pagination.limit,
                                                 listing.pagination.offset)]]
    /\ UNCHANGED <<questions, answers, next_question_id, next_answer_id, req, params, memory, failing, moderation, now, issued, checked, checks, account_vars>>

NextList ==
    \/ get_questions_extract
    \/ get_questions_query

SpecList == InitList /\ [][NextList]_vars

\* ------------------------------------------------------------ properties of SpecList
\* A decimal numeral: digits, with the plus sign str::parse allows.
NumeralDigits(str) == IF Len(str) > 0 /\ str[1] = "+" THEN Tail(str) ELSE str
DecimalNumeral(str) ==
    /\ Len(NumeralDigits(str)) > 0
    /\ \A i \in DOMAIN NumeralDigits(str) : NumeralDigits(str)[i] \in Digits
\* ... that fits a u32, and its value.
IsU32(str) == DecimalNumeral(str) /\ ~PosOverflow(NumeralDigits(str))
NumeralValue(str) == DecimalValue(NumeralDigits(str))

Supplied(k) == k \in DOMAIN params
Extracted == listing.pc # "start" /\ DOMAIN params # {}

\* The pagination the client asked for.
Requested ==
    IF Supplied("limit") /\ Supplied("offset")
    THEN [limit |-> Some(NumeralValue(params["limit"])),
          offset |-> NumeralValue(params["offset"])]
    ELSE Pagination_default

\* Rows offset+1 .. offset+limit of the stored questions, as Questions.
ExpectedPage(limit, offset) ==
    LET last == IF limit.some /\ offset + limit.val < Len(questions)
                THEN offset + limit.val ELSE Len(questions)
    IN [i \in 1..(IF last > offset THEN last - offset ELSE 0) |->
          [id |-> questions[offset + i].id, title |-> questions[offset + i].title,
           content |-> questions[offset + i].content,
           tags |-> questions[offset + i].tags]]

\* C7: get_questions answers with the stored questions after skipping
\* offset rows, up to limit of them (all that remain without a limit), for
\* the limit and offset of the query.
C7_ListIsRequestedPage ==
    (listing.pc = "done" /\ listing.reply.ok)
    => listing.reply.val = ExpectedPage(Requested.limit, Requested.offset)

\* C8 as stated: offset alone gives an unbounded Pagination, both give the
\* parsed values, and MissingParameters means the offset is missing.
C8_OffsetRequiredLimitOptional ==
    Extracted =>
       /\ (Supplied("offset") /\ ~Supplied("limit") /\ IsU32(params["offset"]))
          => listing.extracted =
                [ok |-> TRUE,
                 val |-> [limit |-> None, offset |-> NumeralValue(params["offset"])]]
       /\ (Supplied("offset") /\ Supplied("limit")
             /\ IsU32(params["offset"]) /\ IsU32(params["limit"]))
          => listing.extracted = [ok |-> TRUE, val |-> Requested]
       /\ listing.extracted = [ok |-> FALSE, err |-> "MissingParameters"]
          => ~Supplied("offset")

\* C8, amended: extract_pagination wants both parameters. Both, numeric,
\* give exactly the parsed limit and offset; a query that lacks limit or
\* lacks offset fails with MissingParameters, and no other query does.
C8_BothRequired ==
    Extracted =>
       /\ (Supplied("offset") /\ Supplied("limit")
             /\ IsU32(params["offset"]) /\ IsU32(params["limit"]))
          => listing.extracted = [ok |-> TRUE, val |-> Requested]
       /\ listing.extracted = [ok |-> FALSE, err |-> "MissingParameters"]
          <=> (~Supplied("offset") \/ ~Supplied("limit"))

\* A numeric offset without a limit was refused.
C8_Witness ==
    /\ Extracted
    /\ Supplied("offset") /\ ~Supplied("limit") /\ IsU32(params["offset"])
    /\ listing.extracted = [ok |-> FALSE, err |-> "MissingParameters"]

Malformed(k) == Supplied(k) /\ ~DecimalNumeral(params[k])

\* C9 as stated: a supplied limit or offset that is no decimal numeral makes
\* get_questions fail with ParseError, and no query reaches the store.
C9_MalformedIsParseError ==
    (listing.pc # "start" /\ (Malformed("limit") \/ Malformed("offset")))
    => /\ listing.pc = "done"
       /\ listing.reply = [ok |-> FALSE, err |-> "ParseError"]
       /\ listing.store_args = <<>>

\* C9, amended: with both parameters supplied, one of them no decimal
\* numeral makes get_questions fail with ParseError; supplied without the
\* other it fails with MissingParameters; either way no query reaches the
\* store.
C9_MalformedNeverQueried ==
    (listing.pc # "start" /\ (Malformed("limit") \/ Malformed("offset")))
    => /\ listing.pc = "done"
       /\ listing.store_args = <<>>
       /\ listing.reply =
             [ok |-> FALSE,
              err |-> IF Supplied("limit") /\ Supplied("offset")
                      THEN "ParseError" ELSE "MissingParameters"]

\* A numeric limit with a malformed offset ended in ParseError.
C9_Witness ==
    /\ listing.pc = "done"
    /\ Supplied("limit") /\ IsU32(params["limit"]) /\ Malformed("offset")
    /\ listing.reply = [ok |-> FALSE, err |-> "ParseError"]

\* C10 as stated: offset >= 0 and limit > 0 in what extract_pagination
\* returns and in what reaches Store::get_questions.
C10_LimitPositive ==
    /\ listing.extracted.ok
       => /\ listing.extracted.val.offset >= 0
          /\ listing.extracted.val.limit.some
             => listing.extracted.val.limit.val > 0
    /\ listing.store_args # <<>>
       => /\ listing.store_args[2] >= 0
          /\ listing.store_args[1].some => listing.store_args[1].val > 0

\* C10, amended: offset >= 0 and limit >= 0; a limit of 0 is accepted.
C10_LimitNotNegative ==
    /\ listing.extracted.ok
       => /\ listing.extracted.val.offset >= 0
          /\ listing.extracted.val.limit.some
             => listing.extracted.val.limit.val >= 0
    /\ listing.store_args # <<>>
       => /\ listing.store_args[2] >= 0
          /\ listing.store_args[1].some => listing.store_args[1].val >= 0

\* extract_pagination returned a limit of 0.
C10_Witness ==
    /\ listing.extracted.ok
    /\ listing.extracted.val.limit = Some(0)

\* ------------------------------------------------------------ the auth filter
\* Tokens a client can put in the Authorization header besides the ones
\* issue_token built in this run: tokens under the server's key from
\* another run or clock, tokens lacking a claim, tokens with an issued-at
\* claim, and a token under another key.
Token(key, account_id, iat, nbf, exp) ==
    [key |-> key, account_id |-> account_id, iat |-> iat, nbf |-> nbf, exp |-> exp]
ForeignTokens ==
    {Token(ServerKey, 1, NoClaim, n, e) : n \in Times, e \in Times}
    \cup {Token(ServerKey, NoClaim, NoClaim, 0, MaxTime + Day),
          Token(ServerKey, 1, NoClaim, NoClaim, MaxTime + Day),
          Token(ServerKey, 1, NoClaim, 0, NoClaim),
          Token(ServerKey, 1, 0, 0, MaxTime + Day),
          Token(ServerKey, 1, MaxTime, 0, MaxTime + Day),
          Token("ANOTHER KEY", 1, NoClaim, 0, MaxTime + Day)}
IssuedTokens == {i.token : i \in issued}
Headers == {NoHeader} \cup ForeignTokens \cup IssuedTokens

\* The clock moves on.
Tick ==
    /\ now < MaxTime
    /\ now' = now + 1
    /\ UNCHANGED <<questions, answers, next_question_id, next_answer_id, req, params, memory, failing, moderation,
                   listing, issued, checked, checks, account_vars>>

\* issue_token(account_id); the clock may move between its two reads.
issue(account_id) ==
    /\ Cardinality(issued) < Cardinality(IssueSlots)
    /\ \E at_not_before \in {now, now + 1} \cap Times :
        /\ issued' = issued \cup
               {[token |-> issue_token(account_id, now, at_not_before),
                 account_id |-> account_id, at |-> now, done |-> at_not_before]}
        /\ now' = at_not_before
    /\ UNCHANGED <<questions, answers, next_question_id, next_answer_id, req, params, memory, failing, moderation,
                   listing, checked, checks, account_vars>>

\* A request passes through auth(); a rejection goes to return_error.
Checked(header, at) ==
    LET a == auth(header, at)
    IN [header |-> header, at |-> at,
        verified |-> IF header = NoHeader THEN NotChecked.verified
                     ELSE verify_token(header, at),
        passed |-> a.ok, session |-> a.val, rejection |-> a.rejection,
        reply |-> IF a.ok THEN Reply("none", "none") ELSE return_error(a.rejection)]
authorize(header) ==
    /\ checked' = Checked(header, now)
    /\ UNCHANGED <<questions, answers, next_question_id, next_answer_id, req, params, memory, failing, moderation,
                   listing, now, issued, checks, account_vars>>

NextToken ==
    \/ Tick
    \/ \E account_id \in AccountIds : issue(account_id)
    \/ \E header \in Headers : authorize(header)

SpecToken == Init /\ [][NextToken]_vars

AsIssued(token) ==
    /\ token.key = ServerKey
    /\ token.account_id # NoClaim
    /\ token.iat = NoClaim
    /\ token.nbf # NoClaim
    /\ token.exp # NoClaim

C13_ClaimsAsSpecified ==
    \A i \in issued :
        /\ i.token.account_id = i.account_id
        /\ i.token.iat = i.at
        /\ i.token.nbf = i.at
        /\ i.token.exp = i.at + Day
        /\ i.token.exp - i.token.nbf = Day

\* C14: every failure of verify_token, whatever its cause, is the one error
\* value CannotDecryptToken.
FailedVerification ==
    [ok |-> FALSE, val |-> NoSession, err |-> "CannotDecryptToken"]
C14_OneErrorKind ==
    (checked.header # NoHeader /\ ~checked.verified.ok)
        => checked.verified = FailedVerification

\* the claims decrypt and are inside their window, but are no Session
C14_Witness ==
    /\ checked.header # NoHeader
    /\ validate_local_token(checked.header, ServerKey, checked.at).ok
    /\ ~Session_from_value(checked.header).ok
    /\ checked.verified = FailedVerification

\* C15: when auth() rejects because verify_token failed, the rejection that
\* reaches return_error is the CannotDecryptToken error of verify_token.
C15_ClassifiedErrorReachesBoundary ==
    (checked.header # NoHeader /\ ~checked.passed)
        => checked.rejection = Rejection("custom", checked.verified.err)

\* ------------------------------------------------------------ the service
\* routes::authentication::register: hash_password, Store::add_account.
\* The sequence behind accounts.id moves on with every INSERT.
register_plaintext(email, password) ==
    /\ \E salt \in Salts \ UsedSalts :
        LET account == [email |-> email, password |-> password]
            ins == Store_add_account(accounts, next_account_id, account)
        IN /\ hashed' = hashed \cup {[password |-> password, salt |-> salt,
                                      encoded |-> hash_password(password, salt)]}
           /\ accounts' = ins.table
           /\ last_register' = RegisterResult(email, password, ins.result)
    /\ next_account_id' = next_account_id + 1
    /\ submitted' = submitted \cup {password}
    /\ UNCHANGED <<questions, answers, next_question_id, next_answer_id, req, params, memory, failing, moderation,
                   listing, now, issued, checked, checks, last_login>>
register(email, password) ==
    /\ submitted' = submitted \cup {password}
    /\ \E salt \in Salts \ UsedSalts :
        LET hashed_password == hash_password(password, salt)
            account == [email |-> email, password |-> hashed_password]
            ins == Store_add_account(accounts, next_account_id, account)
        IN IF ~argon2_accepts(password)
           \* hash_encoded(..).unwrap() on an Err: the task panics
           THEN /\ last_register' = RegisterResult(email, password, "Panic")
                /\ UNCHANGED <<hashed, accounts, next_account_id>>
           ELSE /\ hashed' = hashed \cup {[password |-> password, salt |-> salt,
                                           encoded |-> hashed_password]}
                /\ accounts' = ins.table
                /\ next_account_id' = next_account_id + 1
                /\ last_register' = RegisterResult(email, password, ins.result)
    /\ UNCHANGED <<questions, answers, next_question_id, next_answer_id, req, params, memory, failing, moderation,
                   listing, now, issued, checked, checks, last_login>>

\* routes::authentication::login: Store::get_account, verify_password,
\* issue_token
login(email, password) ==
    /\ Cardinality(issued) < Cardinality(IssueSlots)
    /\ submitted' = submitted \cup {password}
    /\ LET account == Store_get_account(accounts, email)
           verified == verify_password(account.row.password, password)
       IN IF ~account.ok
          THEN /\ last_login' = LoginResult(email, password, "DatabaseQueryError", NoHeader, now)
               /\ UNCHANGED <<now, issued>>
          ELSE IF ~verified.ok
          THEN /\ last_login' = LoginResult(email, password, "ArgonLibraryError", NoHeader, now)
               /\ UNCHANGED <<now, issued>>
          ELSE IF ~verified.val
          THEN /\ last_login' = LoginResult(email, password, "WrongPassword", NoHeader, now)
               /\ UNCHANGED <<now, issued>>
          ELSE \E at_not_before \in {now, now + 1} \cap Times :
                LET token == issue_token(account.row.id, now, at_not_before)
                IN /\ issued' = issued \cup
                          {[token |-> token, account_id |-> account.row.id,
                            at |-> now, done |-> at_not_before]}
                   /\ now' = at_not_before
                   /\ last_login' = LoginResult(email, password, "token", token,
                                                 at_not_before)
    /\ UNCHANGED <<questions, answers, next_question_id, next_answer_id, req, params, memory, failing, moderation,
                   listing, checked, checks, accounts, next_account_id, hashed, last_register>>

\* The Authorization header of a request to a guarded route.
RouteHeaders ==
    {NoHeader, Token("ANOTHER KEY", 1, NoClaim, 0, MaxTime + Day),
     Token(ServerKey, NoClaim, NoClaim, 0, MaxTime + Day)}
    \cup IssuedTokens

\* A guarded route whose filter auth() rejected: no handler runs, and
\* recover(return_error) answers.
rejected(r, op, rejection) ==
    /\ CanStart(r)
    /\ req' = Finish(r, op, NULL, NULL, "none", -1, "none", return_error(rejection).text)
    /\ UNCHANGED <<questions, answers, next_question_id, next_answer_id, params, memory, failing, moderation,
                   listing, now, issued, account_vars>>

\* main: the routes post/put/delete /questions and post /answers, each
\* .and(routes::authentication::auth()).and_then(handler)
add_question_route(r, header) ==
    /\ UNCHANGED <<checked, checks>>
    /\ LET session == auth(header, now)
       IN IF session.ok THEN add_question_handler(r, session.val.account_id)
          ELSE rejected(r, "add_question", session.rejection)

update_question_route(r, header) ==
    /\ UNCHANGED <<checked, checks>>
    /\ LET session == auth(header, now)
       IN IF session.ok THEN update_question_handler(r, session.val.account_id)
          ELSE rejected(r, "update_question", session.rejection)

delete_question_route(r, header) ==
    /\ UNCHANGED <<checked, checks>>
    /\ LET session == auth(header, now)
       IN IF session.ok THEN delete_question_handler(r, session.val.account_id)
          ELSE rejected(r, "delete_question", session.rejection)

add_answer_route(r, header) ==
    /\ UNCHANGED <<checked, checks>>
    /\ LET session == auth(header, now)
       IN IF session.ok THEN add_answer_handler(r, session.val.account_id)
          ELSE rejected(r, "add_answer", session.rejection)

NextAccount ==
    \/ Tick
    \/ \E email \in Emails, password \in Passwords : register(email, password)
    \/ \E email \in Emails, password \in Passwords : login(email, password)

SpecAccount == Init /\ [][NextAccount]_vars

\* The request slots the guarded routes take.
GuardedReqs == {1}

\* The service with an account registered earlier, and a question of
\* that account.
SeedAccount ==
    [id |-> 1, email |-> "a@example.com",
     password |-> hash_password(<<"pw1">>, "salt1")]
SeedQuestion ==
    [id |-> 1, title |-> "ask", content |-> "why", tags |-> NoTags,
     account_id |-> SeedAccount.id]
InitService ==
    /\ questions = <<SeedQuestion>>
    /\ answers = <<>>
    /\ next_question_id = 2
    /\ next_answer_id = 1
    /\ req = [r \in Reqs |-> IdleReq]
    /\ params = NoParams
    /\ listing = IdleListing
    /\ now = 0
    /\ issued = {}
    /\ checked = NotChecked
    /\ accounts = <<SeedAccount>>
    /\ next_account_id = 2
    /\ hashed = {[password |-> <<"pw1">>, salt |-> "salt1",
                  encoded |-> SeedAccount.password]}
    /\ submitted = {<<"pw1">>}
    /\ last_login = NoLogin
    /\ last_register = NoRegister
    /\ moderation = NoModeration
    /\ checks = [r \in Reqs |-> NoChecks]
    /\ failing = [s \in FailSlots |-> NoFailure]
    /\ memory = Store_new

NextService ==
    \/ Tick
    \/ register("b@example.com", <<"pw2">>)
    \/ \E password \in Passwords : login("a@example.com", password)
    \/ \E r \in GuardedReqs, header \in RouteHeaders : add_question_route(r, header)
    \/ \E r \in GuardedReqs, header \in RouteHeaders : update_question_route(r, header)
    \/ \E r \in GuardedReqs : update_question_stmt(r)
    \/ \E r \in GuardedReqs, header \in RouteHeaders : delete_question_route(r, header)
    \/ \E r \in GuardedReqs : delete_question_stmt(r)
    \/ \E r \in GuardedReqs, header \in RouteHeaders : add_answer_route(r, header)
    \/ get_questions_extract
    \/ get_questions_query

SpecService == InitService /\ [][NextService]_vars

\* ------------------------------------------------------------ properties of SpecService
\* C16: whether a token validates depends on the token and the clock
\* only: after any run of logins (further tokens of the same account),
\* registrations and question or answer mutations, verify_token on an
\* issued token gives the Session of its claims at every time up to its
\* expires_at, and CannotDecryptToken after it.
ByTokenAndClock(token, at) ==
    IF at <= token.exp
    THEN [ok |-> TRUE,
          val |-> [account_id |-> token.account_id, nbf |-> token.nbf,
                   exp |-> token.exp],
          err |-> "none"]
    ELSE FailedVerification
Verifying(acct) ==
    \E h \in RouteHeaders :
        /\ h # NoHeader
        /\ verify_token(h, now).ok
        /\ verify_token(h, now).val.account_id = acct
C17_MutationsBehindAuth ==
    [][/\ \A r \in Reqs :
            (req[r].pc = "idle" /\ req'[r].pc # "idle")
                => \/ /\ req'[r].acct = NULL
                      /\ req'[r].pc = "done"
                      /\ req'[r].res = "Route not found"
                      /\ UNCHANGED <<questions, answers>>
                   \/ /\ req'[r].acct # NULL
                      /\ Verifying(req'[r].acct)
       /\ (questions' # questions \/ answers' # answers)
            => \E r \in Reqs :
                  /\ req'[r] # req[r]
                  /\ req'[r].acct # NULL
                  /\ req[r].pc \in {"update", "delete"} \/ Verifying(req'[r].acct)
       /\ listing' # listing => UNCHANGED <<req, issued>>]_vars

\* a request with a token under another key was turned away, and
\* get_questions answered while no token existed
C17_Witness ==
    /\ issued = {}
    /\ req[1].pc = "done"
    /\ req[1].acct = NULL
    /\ req[1].res = "Route not found"
    /\ questions = <<SeedQuestion>>
    /\ answers = <<>>
    /\ listing.pc = "done"
    /\ listing.reply.ok

\* ------------------------------------------------------------ properties of SpecAccount
RegisteredWith(row, password) ==
    \E h \in hashed : h.encoded = row.password /\ h.password = password

C19_SaltedHashVerifies ==
    /\ \A h1, h2 \in hashed :
          (h1 # h2 /\ h1.password = h2.password) => h1.encoded # h2.encoded
    /\ \A h \in hashed, p \in Passwords :
          verify_password(h.encoded, p) = [ok |-> TRUE, val |-> (p = h.password)]

C19_Witness ==
    /\ \E h1, h2 \in hashed :
          h1.password = h2.password /\ h1.encoded # h2.encoded
    /\ last_login.res = "WrongPassword"

\* C20: in every accounts table the stored password of every account is
\* an output of hash_password and equals no plaintext password sent to
\* register or login.
C20_StoredPasswordIsHash ==
    \A i \in DOMAIN accounts :
        /\ \E h \in hashed : h.encoded = accounts[i].password
        /\ accounts[i].password \notin submitted

C20_Witness ==
    /\ Len(accounts) = 2
    /\ Cardinality(submitted) = 2
    /\ last_login.res = "DatabaseQueryError"

\* ------------------------------------------------ C21 .. C22: accounts
\* The rows of a table that hold an email.
RowsOf(table, email) == {i \in DOMAIN table : table[i].email = email}

\* C21: emails stay unique across accounts: after any register request
\* for an email (in any order with the others) exactly one row holds that
\* email; a request that finds the email taken changes no row and is
\* answered "Account already exists", which is not the answer to a
\* generic query error, and a request for a free email is answered 200.
C21_EmailsStayUnique ==
    [][hashed' # hashed
          => LET email == last_register'.email
             IN /\ Cardinality(RowsOf(accounts', email)) = 1
                /\ IF RowsOf(accounts, email) # {}
                   THEN /\ accounts' = accounts
                        /\ last_register'.reply = Reply("422", "Account already exists")
                        /\ last_register'.reply
                               # return_error(Rejection("custom", "DatabaseQueryError"))
                   ELSE /\ RowsOf(accounts', email) = {Len(accounts) + 1}
                        /\ last_register'.reply = Reply("200", "Account added")]_vars

C21_Witness ==
    /\ last_register.res = "DatabaseQueryError:23505"
    /\ last_register.reply.text = "Account already exists"
    /\ Cardinality(RowsOf(accounts, last_register.email)) = 1
    /\ Len(accounts) = 2

\* C22: a login for a registered email with a password other than the
\* registered one is answered WrongPassword (401) and issues no token; a
\* login that returns a token issued it after verify_password gave
\* Ok(true) on the stored hash of the account with that email.
C22_WrongPasswordNoToken ==
    [][last_login' # last_login
          => /\ \A i \in DOMAIN accounts, p \in Passwords :
                   (/\ accounts[i].email = last_login'.email
                    /\ RegisteredWith(accounts[i], p)
                    /\ last_login'.password # p)
                       => /\ last_login'.res = "WrongPassword"
                          /\ last_login'.reply.status = "401"
                          /\ last_login'.token = NoHeader
                          /\ issued' = issued
             /\ (last_login'.res = "token" \/ issued' # issued)
                   => \E i \in DOMAIN accounts :
                         /\ accounts[i].email = last_login'.email
                         /\ verify_password(accounts[i].password, last_login'.password)
                                = [ok |-> TRUE, val |-> TRUE]
                         /\ RegisteredWith(accounts[i], last_login'.password)]_vars

C22_Witness ==
    /\ last_login.res = "WrongPassword"
    /\ last_login.token = NoHeader
    /\ \E i \in DOMAIN accounts :
          /\ accounts[i].email = last_login.email
          /\ ~RegisteredWith(accounts[i], last_login.password)
    /\ issued # {}

\* ------------------------------------- C23 .. C25: the moderation client
\* check_profanity(content) is called: the client and its request are
\* built, nothing is sent yet.
check_profanity_start(content) ==
    /\ moderation.pc = "idle"
    /\ moderation' = [NoModeration EXCEPT !.pc = "sending", !.crate = "chapter_10",
                                          !.content = content, !.body = content]
    /\ UNCHANGED <<questions, answers, next_question_id, next_answer_id, req, params, memory, failing,
                   listing, now, issued, checked, checks, account_vars>>

\* RetryTransientMiddleware::execute_with_retry, one turn of its loop: the
\* request is sent and comes back with result; a transient result that
\* the policy lets retry is followed by another turn, any other result is
\* what send() returns, and check_profanity classifies it.
execute_with_retry(result) ==
    /\ moderation.pc = "sending"
    /\ moderation.crate = "chapter_10"
    /\ IF /\ Retryable_from_reqwest_response(result) = "Transient"
          /\ should_retry(moderation.n_past_retries)
       THEN moderation' = [moderation EXCEPT !.n_past_retries = @ + 1,
                                             !.sent = Append(@, result)]
       ELSE moderation' = [moderation EXCEPT
                               !.pc = "done",
                               !.sent = Append(@, result),
                               !.res = check_profanity_received(moderation.body,
                                                                result)]
    /\ UNCHANGED <<questions, answers, next_question_id, next_answer_id, req, params, memory, failing,
                   listing, now, issued, checked, checks, account_vars>>

Contents == {"darn", "why"}

NextModeration ==
    \/ \E content \in Contents : check_profanity_start(content)
    \/ \E result \in SendResults : execute_with_retry(result)

SpecModeration == Init /\ [][NextModeration]_vars

TransportFailure == [err |-> "connect", status |-> NoStatus, body |-> "none"]
Censored == [err |-> "none", status |-> 200, body |-> "BadWordsResponse"]
Unprocessable == [err |-> "none", status |-> 422, body |-> "APIResponse"]
Sent == moderation.sent
Done == moderation.pc = "done"
FailedFirst(n) == Len(Sent) >= n /\ \A i \in 1..n : Sent[i] = TransportFailure

\* C23 as stated: two transport failures and then a valid 2xx response
\* give the censored text; after three transport failures in a row no
\* further request is sent and the call fails with
\* MiddlewareReqwestAPIError.
C23_ThreeAttemptsAtMost ==
    /\ (Done /\ Sent = <<TransportFailure, TransportFailure, Censored>>)
          => moderation.res
                = CheckResult("Ok", censored_content(moderation.content), NoStatus)
    /\ FailedFirst(3)
          => /\ Len(Sent) = 3
             /\ Done
             /\ moderation.res.kind = "MiddlewareReqwestAPIError"

\* C23, amended: check_profanity sends the request once and again at most
\* max_n_retries (3) times: two transport failures and then a valid 2xx
\* response give the censored text, as do three and then a valid 2xx
\* response, and after four transport failures in a row no further
\* request is sent and the call fails with MiddlewareReqwestAPIError.
C23_OneAttemptAndThreeRetries ==
    /\ Len(Sent) <= max_n_retries + 1
    /\ \A n \in {2, max_n_retries} :
          (Done /\ Len(Sent) = n + 1 /\ FailedFirst(n) /\ Sent[n + 1] = Censored)
              => moderation.res
                    = CheckResult("Ok", censored_content(moderation.content), NoStatus)
    /\ \A n \in 1..max_n_retries :
          (Len(Sent) = n /\ FailedFirst(n)) => moderation.pc = "sending"
    /\ FailedFirst(max_n_retries + 1)
          => /\ Done
             /\ moderation.res.kind = "MiddlewareReqwestAPIError"

C23_Witness ==
    /\ FailedFirst(max_n_retries + 1)
    /\ Done
    /\ moderation.res.kind = "MiddlewareReqwestAPIError"

\* A response, and a response with one of the statuses the middleware
\* takes as transient.
IsResponse(result) == result.err = "none"
TransientStatus(result) ==
    /\ IsResponse(result)
    /\ \/ is_server_error(result.status)
       \/ result.status \in {REQUEST_TIMEOUT, TOO_MANY_REQUESTS}

C25_ClassifiedByStatusClass ==
    Done =>
        LET last == Sent[Len(Sent)]
        IN /\ (is_success(last.status) /\ last.body = "BadWordsResponse")
                 => moderation.res
                       = CheckResult("Ok", censored_content(moderation.content), NoStatus)
           /\ (is_success(last.status) /\ last.body # "BadWordsResponse")
                 => moderation.res.kind = "ReqwestAPIError"
           /\ is_client_error(last.status)
                 => /\ moderation.res.kind = "ClientError"
                    /\ moderation.res.status = last.status
           /\ moderation.res.kind = "ServerError" <=> is_server_error(last.status)

\* ------------------------------- C26 .. C27: the moderated operations
\* add_question and update_question with the outcomes of their checks
\* kept: add_question makes the content check after the title check has
\* succeeded, update_question makes both once the probe has passed.
add_question_moderated(r) ==
    /\ \E acct \in AccountIds, nq \in NewQuestions,
          to \in CheckOutcomes, co \in CheckOutcomes :
        /\ add_question_with(r, acct, nq, to, co)
        /\ checks' = [checks EXCEPT
                         ![r] = Checks(to, IF to = "Ok" THEN co ELSE "none")]
    /\ UNCHANGED checked

update_question_moderated_checks_first(r) ==
    /\ \E acct \in AccountIds, id \in QuestionIds, q \in NewQuestions,
          to \in CheckOutcomes, co \in CheckOutcomes :
        /\ update_question_with(r, acct, id, q, to, co)
        /\ checks' = [checks EXCEPT ![r] = Checks(to, co)]
    /\ UNCHANGED checked

update_question_moderated(r) ==
    /\ \E acct \in AccountIds, id \in QuestionIds, q \in NewQuestions,
          to \in CheckOutcomes, co \in CheckOutcomes :
        /\ update_question_with(r, acct, id, q, to, co)
        /\ checks' = [checks EXCEPT
                         ![r] = IF Store_is_question_owner(questions, id, acct)
                                THEN Checks(to, co) ELSE NoChecks]
    /\ UNCHANGED checked

NextModerated ==
    \/ \E r \in Reqs : add_question_moderated(r)
    \/ \E r \in Reqs : update_question_moderated(r)
    \/ \E r \in Reqs : update_question_stmt(r)

SpecModerated == Init /\ [][NextModerated]_vars

CheckErrors == CheckOutcomes \ {"Ok"}

\* C26: when the check of the title succeeded and the check of the
\* content failed, add_question and update_question end with the error of
\* the content check: the request is not aborted, and the reply is not
\* taken from the title check.
C26_ContentErrorReported ==
    \A r \in Reqs :
        (/\ req[r].pc = "done"
         /\ checks[r].title = "Ok"
         /\ checks[r].content \in CheckErrors)
            => req[r].res = checks[r].content

\* C27: the INSERT of add_question and the UPDATE of update_question run
\* only in a request whose two checks both succeeded; a request with a
\* failed check changes no row, and the title and content a request
\* stores are the censored texts.
C27_StoreAfterBothChecks ==
    [][\A r \in Reqs :
          /\ (checks'[r].title \in CheckErrors \/ checks'[r].content \in CheckErrors)
                => /\ req'[r].pc = "done"
                   /\ req'[r].affected = -1
                   /\ (req'[r] # req[r] => questions' = questions)
          /\ (req'[r] # req[r] /\ questions' # questions)
                => /\ checks'[r] = Checks("Ok", "Ok")
                   /\ \A i \in DOMAIN questions' :
                         (i > Len(questions) \/ questions'[i] # questions[i])
                            => \E nq \in NewQuestions :
                                  /\ questions'[i].title = censored_content(nq.title)
                                  /\ questions'[i].content = censored_content(nq.content)
                                  /\ questions'[i].tags = nq.tags]_vars

C27_Witness ==
    /\ \E r \in Reqs : checks[r].content \in CheckErrors /\ req[r].op = "add_question"
    /\ \E r \in Reqs : req[r].op = "update_question" /\ req[r].affected = 1
    /\ \E i \in DOMAIN questions :
          questions[i].title = "****" /\ questions[i].content = "why"

\* ------------------------------------------------ C28: Store::add_answer
\* C28: add_answer for an answer to an existing question stores exactly
\* one answers row, with the content and question id given, and returns
\* Ok with it; for a question id that does not exist it stores nothing
\* and returns DatabaseQueryError.
C28_AddAnswerReturnsAnswer ==
    [][\A r \in Reqs :
          (req'[r] # req[r] /\ req'[r].op = "add_answer")
             => IF answers_question_fk(questions, req'[r].qid)
                THEN /\ Len(answers') = Len(answers) + 1
                     /\ answers'[Len(answers')].question_id = req'[r].qid
                     /\ answers'[Len(answers')].content = "because"
                     /\ req'[r].res = "Ok"
                ELSE /\ answers' = answers
                     /\ req'[r].res = "DatabaseQueryError"]_vars

\* ------------------------------------ C29 .. C30: failures of argon2
\* register and login with the passwords a request body can carry: one
\* that argon2 takes and one that it refuses.
CryptoPasswords == {<<"pw1">>, OversizedPassword}

NextCrypto ==
    \/ Tick
    \/ \E email \in Emails, password \in CryptoPasswords : register(email, password)
    \/ \E email \in Emails, password \in CryptoPasswords : login(email, password)

SpecCrypto == Init /\ [][NextCrypto]_vars

\* C29: a failure of argon2 in register or in login is answered with
\* ArgonLibraryError for that request; the handler is not aborted.
C29_CryptoFailureReported ==
    /\ (last_register.res # "none" /\ ~argon2_accepts(last_register.password))
          => last_register.res = "ArgonLibraryError"
    /\ last_register.res # "Panic"
    /\ (/\ last_login.res # "none"
        /\ ~argon2_accepts(last_login.password)
        /\ Store_get_account(accounts, last_login.email).ok)
          => last_login.res = "ArgonLibraryError"

\* C30: a login that fails with ArgonLibraryError is answered with
\* status 500.
C30_ArgonErrorIs500 ==
    last_login.res = "ArgonLibraryError" => last_login.reply.status = "500"

\* ----------------------------- C31, C34: the requests of check_profanity
\* chapter_08 profanity::check_profanity(content): a plain
\* reqwest::Client, and .body("a list with shit words").
check_profanity_chapter_08_start(content) ==
    /\ moderation.pc = "idle"
    /\ moderation' = [NoModeration EXCEPT !.pc = "sending", !.crate = "chapter_08",
                                          !.content = content,
                                          !.body = "a list with shit words"]
    /\ UNCHANGED <<questions, answers, next_question_id, next_answer_id, req, params, memory, failing,
                   listing, now, issued, checked, checks, account_vars>>

\* chapter_08: send().await and the classification of its result
check_profanity_chapter_08_send(result) ==
    /\ moderation.pc = "sending"
    /\ moderation.crate = "chapter_08"
    /\ moderation' = [moderation EXCEPT
                          !.pc = "done",
                          !.sent = Append(@, result),
                          !.res = check_profanity_received(moderation.body, result)]
    /\ UNCHANGED <<questions, answers, next_question_id, next_answer_id, req, params, memory, failing,
                   listing, now, issued, checked, checks, account_vars>>

NextProfanity ==
    \/ \E content \in Contents : check_profanity_start(content)
    \/ \E result \in SendResults : execute_with_retry(result)
    \/ \E content \in Contents : check_profanity_chapter_08_start(content)
    \/ \E result \in SendResults : check_profanity_chapter_08_send(result)

SpecProfanity == Init /\ [][NextProfanity]_vars

\* C31: the body of the request check_profanity sends is the text it was
\* called with, and the text it returns is the service's censoring of
\* that text.
C31_BodyIsTheText ==
    /\ moderation.pc # "idle" => moderation.body = moderation.content
    /\ moderation.res.kind = "Ok"
          => moderation.res.val = censored_content(moderation.content)

\* C34: for every response that is not a 2xx, whatever its body,
\* check_profanity returns ClientError or ServerError to its caller.
C34_ErrorResponseClassified ==
    (Done /\ IsResponse(Sent[Len(Sent)]) /\ ~is_success(Sent[Len(Sent)].status))
        => moderation.res.kind \in {"ClientError", "ServerError"}

\* ------------------------ C32 .. C33: statements the database fails
\* A store call of a request fails with error: add_account runs its Err
\* arm; the other calls log the error with {:?} and return
\* Err(DatabaseQueryError(error)).
store_call_fails(s, op, error, enabled) ==
    /\ failing[s].pc = "idle"
    /\ LET returned == IF op = "add_account" THEN add_account_error(error, enabled)
                       ELSE "DatabaseQueryError"
       IN failing' = [failing EXCEPT
                         ![s] = Failure(IF returned = "Panic" THEN "aborted"
                                        ELSE "rejected",
                                        op, error, enabled, returned,
                                        Reply("none", "none"))]
    /\ UNCHANGED <<questions, answers, next_question_id, next_answer_id, req, params, memory,
                   moderation, listing, now, issued, checked, checks, account_vars>>

\* The handler rejected with the error; recover(return_error) answers.
recover(s) ==
    /\ failing[s].pc = "rejected"
    /\ LET reply == return_error_database(failing[s].error)
       IN failing' = [failing EXCEPT
                         ![s].pc = IF reply = Aborted THEN "aborted" ELSE "replied",
                         ![s].reply = reply]
    /\ UNCHANGED <<questions, answers, next_question_id, next_answer_id, req, params, memory,
                   moderation, listing, now, issued, checked, checks, account_vars>>

NextFailing ==
    \/ \E s \in FailSlots, op \in FailingOps, enabled \in BOOLEAN :
          \E error \in FailuresOf(op) : store_call_fails(s, op, error, enabled)
    \/ \E s \in FailSlots : recover(s)

SpecFailing == Init /\ [][NextFailing]_vars

\* C32: whatever the INSERT of add_account fails with, add_account
\* returns Err(DatabaseQueryError) and does not abort.
C32_AddAccountReturnsErr ==
    \A s \in FailSlots :
        failing[s].op = "add_account" => failing[s].returned = "DatabaseQueryError"

\* C33: a DatabaseQueryError that carries a database error is answered
\* with 422, with the text "Account already exists" when its code is
\* 23505 and "Cannot update data" otherwise, whatever the code.
C33_DatabaseErrorIs422 ==
    \A s \in FailSlots :
        (failing[s].pc \notin {"idle", "rejected"}
         /\ failing[s].returned = "DatabaseQueryError"
         /\ failing[s].error.kind = "Database")
            => failing[s].reply
                  = Reply("422", IF failing[s].error = UniqueViolation
                                 THEN "Account already exists"
                                 ELSE "Cannot update data")

\* ------------------------------------------------ C35 .. C37
\* C35: a call of add_answer, add_question or update_question that
\* returns Err(DatabaseQueryError) leaves the tables answers and
\* questions as they were.
C35_FailedCallChangesNothing ==
    [][\A r \in Reqs :
          (/\ req'[r] # req[r]
           /\ req'[r].op \in {"add_answer", "add_question", "update_question"}
           /\ req'[r].res = "DatabaseQueryError")
              => (answers' = answers /\ questions' = questions)]_vars

\* C36: an update_question request for a question that the account does
\* not own, or that does not exist, is answered Unauthorized, changes no
\* row and makes no call of check_profanity; the checks are made only by
\* a request whose probe passed.
C36_ProbeBeforeChecks ==
    [][\A r \in Reqs :
          (/\ req[r].pc = "idle"
           /\ req'[r].pc # "idle"
           /\ req'[r].op = "update_question")
              => IF \E row \in Range(questions) :
                        row.id = req'[r].qid /\ row.account_id = req'[r].acct
                 THEN req'[r].probe = "passed"
                 ELSE /\ req'[r].pc = "done"
                      /\ req'[r].res = "Unauthorized"
                      /\ checks'[r] = NoChecks
                      /\ questions' = questions]_vars

C36_Witness ==
    \E r1, r2 \in Reqs :
        /\ req[r1].op = "update_question" /\ req[r1].res = "Unauthorized"
        /\ \A row \in Range(questions) : row.id # req[r1].qid
        /\ checks[r1] = NoChecks
        /\ req[r2].op = "update_question" /\ req[r2].res = "Unauthorized"
        /\ \E row \in Range(questions) :
              row.id = req[r2].qid /\ row.account_id # req[r2].acct
        /\ checks[r2] = NoChecks

\* C37: a login with an email that no account has issues no token and
\* fails with DatabaseQueryError (fetch_one finds no row), which is
\* answered 422 "Cannot update data"; it does not fail with WrongPassword.
C37_UnknownEmailIsQueryError ==
    [][(/\ last_login' # last_login
        /\ \A i \in DOMAIN accounts : accounts[i].email # last_login'.email)
          => /\ last_login'.res = "DatabaseQueryError"
             /\ last_login'.reply = Reply("422", "Cannot update data")
             /\ last_login'.token = NoHeader
             /\ issued' = issued]_vars

C37_Witness ==
    /\ last_login.res = "DatabaseQueryError"
    /\ accounts # <<>>
    /\ \A i \in DOMAIN accounts : accounts[i].email # last_login.email
    /\ issued # {}

\* ------------------------------- C38 .. C40: chapter_04, in-memory store
\* add_question(store, question): insert under question.id
add_question04(question) ==
    /\ memory' = [memory EXCEPT
                     !.questions = insert(@, question.id, question),
                     !.reply = Reply04("add_question", "200", "Question added", <<>>)]
    /\ UNCHANGED <<questions, answers, next_question_id, next_answer_id, req, params,
                   failing, moderation, listing, now, issued, checked, checks,
                   account_vars>>

\* update_question(id, store, question): get_mut(&QuestionId(id)), and
\* *q = question
update_question04(id, question) ==
    /\ IF id \in DOMAIN memory.questions
       THEN memory' = [memory EXCEPT
                          !.questions = [@ EXCEPT ![id] = question],
                          !.reply = Reply04("update_question", "200",
                                            "Question updated", <<>>)]
       ELSE memory' = [memory EXCEPT
                          !.reply = return_error04("update_question",
                                                   "QuestionNotFound")]
    /\ UNCHANGED <<questions, answers, next_question_id, next_answer_id, req, params,
                   failing, moderation, listing, now, issued, checked, checks,
                   account_vars>>

\* delete_question(id, store): remove(&QuestionId(id))
delete_question04(id) ==
    /\ IF id \in DOMAIN memory.questions
       THEN memory' = [memory EXCEPT
                          !.questions = remove(@, id),
                          !.reply = Reply04("delete_question", "200",
                                            "Question deleted", <<>>)]
       ELSE memory' = [memory EXCEPT
                          !.reply = return_error04("delete_question",
                                                   "QuestionNotFound")]
    /\ UNCHANGED <<questions, answers, next_question_id, next_answer_id, req, params,
                   failing, moderation, listing, now, issued, checked, checks,
                   account_vars>>

\* The query of GET /questions: empty, without start or end, with one
\* that does not parse as usize, or with both as numbers.
Indices04 == {0, 1, 2, 3}
Queries04 ==
    {[kind |-> k, start |-> 0, end |-> 0] :
        k \in {"empty", "MissingParameters", "ParseError"}}
    \cup {[kind |-> "numbers", start |-> s, end |-> e] : s \in Indices04, e \in Indices04}

\* get_questions(params, store): all the questions for an empty query,
\* else extract_pagination(params)? and &res[pagination.start..pagination.end],
\* which panics when start > end or end > res.len()
get_questions04(query) ==
    /\ \E res \in Collections(memory.questions) :
          IF query.kind = "empty"
          THEN memory' = [memory EXCEPT
                             !.reply = Reply04("get_questions", "200", "json", res)]
          ELSE IF query.kind # "numbers"
          THEN memory' = [memory EXCEPT
                             !.reply = return_error04("get_questions", query.kind)]
          ELSE IF query.start > query.end \/ query.end > Len(res)
          THEN memory' = [memory EXCEPT
                             !.reply = Reply04("get_questions", "none", "Panic", <<>>)]
          ELSE memory' = [memory EXCEPT
                             !.reply = Reply04("get_questions", "200", "json",
                                               SubSeq(res, query.start + 1, query.end))]
    /\ UNCHANGED <<questions, answers, next_question_id, next_answer_id, req, params,
                   failing, moderation, listing, now, issued, checked, checks,
                   account_vars>>

\* add_answer(store, params): an Answer with id AnswerId("1"), inserted
\* under its id
add_answer04(form) ==
    /\ LET answer == [id |-> "1", content |-> form.content,
                      question_id |-> form.questionId]
       IN memory' = [memory EXCEPT
                        !.answers = insert(@, answer.id, answer),
                        !.reply = Reply04("add_answer", "200", "Answer added", <<>>)]
    /\ UNCHANGED <<questions, answers, next_question_id, next_answer_id, req, params,
                   failing, moderation, listing, now, issued, checked, checks,
                   account_vars>>

NextMemory ==
    \/ \E question \in Questions04 : add_question04(question)
    \/ \E id \in Ids04, question \in Questions04 : update_question04(id, question)
    \/ \E id \in Ids04 : delete_question04(id)
    \/ \E query \in Queries04 : get_questions04(query)
    \/ \E form \in AnswerParams04 : add_answer04(form)

SpecMemory == Init /\ [][NextMemory]_vars

\* C38: every entry of the questions map is stored under the key equal
\* to its own id, and update_question and delete_question on an id that
\* is not in the map answer QuestionNotFound and leave the map as it was.
C38_KeyIsOwnId ==
    [][/\ \A k \in DOMAIN memory'.questions : memory'.questions[k].id = k
       /\ (/\ memory'.reply # memory.reply
           /\ memory'.reply.op \in {"update_question", "delete_question"}
           /\ memory'.reply.status # "200")
             => /\ memory'.reply.text = "Question not found"
                /\ memory'.questions = memory.questions]_vars

\* C39: get_questions with numeric start and end answers with the
\* questions at the positions start..end, and with an error reply, not
\* an abort, when start > end or end exceeds the number of questions.
C39_RangeAnswered ==
    memory.reply.op = "get_questions"
        => /\ memory.reply.text # "Panic"
           /\ memory.reply.status \in {"200", "416"}

\* C40: every add_answer that reports "Answer added" adds one answer
\* under an id no stored answer has: the map grows by one and keeps the
\* answers it had.
C40_AnswerAddedIsNew ==
    [][(memory'.reply.op = "add_answer" /\ memory'.reply.text = "Answer added"
        /\ memory'.answers # memory.answers)
          => /\ Cardinality(DOMAIN memory'.answers)
                   = Cardinality(DOMAIN memory.answers) + 1
             /\ \A k \in DOMAIN memory.answers :
                   memory'.answers[k] = memory.answers[k]]_vars

====
